---------------------------- MODULE Spec2Model ----------------------------
(***************************************************************************)
(* A model of procyclingstats.today_races_scraper.TodayRaces: the four     *)
(* homepage extractors (live_races, next_to_finish, finished_races,        *)
(* yesterday_races) and the calendar query race_urls_for_date.             *)
(*                                                                         *)
(* Strings are sequences of one-character strings, so that prefixes,       *)
(* slicing and Python's code point ordering are computed, not assumed.     *)
(* An attribute value is a record: kind "absent" (the key is not in the    *)
(* node's attribute mapping), "none" (the attribute is written without a   *)
(* value, which the parser maps to None) or "str" (a string).              *)
(***************************************************************************)
EXTENDS Integers, Sequences, FiniteSets, TLC

\* ------------------------------------------------------------ bounds
MaxAnchors == 3
MaxItems == 2
MaxRows == 2
MaxCells == 6
MaxNodes == 4
NCallers == 2

\* ----------------------------------------------------------- strings
Chars == {"/", "a", "b", "c", "e", "r"}

CodePoint(c) ==
  CASE c = "/" -> 47
    [] c = "a" -> 97
    [] c = "b" -> 98
    [] c = "c" -> 99
    [] c = "e" -> 101
    [] c = "r" -> 114

\* str.startswith
StartsWith(s, p) ==
  /\ Len(s) >= Len(p)
  /\ \A i \in 1..Len(p) : s[i] = p[i]

\* Python's < on str: by code point, a proper prefix is smaller
RECURSIVE StrLess(_, _)
StrLess(s, t) ==
  IF t = <<>> THEN FALSE
  ELSE IF s = <<>> THEN TRUE
  ELSE IF s[1] # t[1] THEN CodePoint(s[1]) < CodePoint(t[1])
  ELSE StrLess(Tail(s), Tail(t))

\* sorted(set of str)
RECURSIVE Sorted(_)
Sorted(S) ==
  IF S = {} THEN <<>>
  ELSE LET m == CHOOSE x \in S : \A y \in S : x = y \/ StrLess(x, y)
       IN  <<m>> \o Sorted(S \ {m})

\* -------------------------------------------------- attribute values
Absent == [k |-> "absent", s |-> <<>>]
None == [k |-> "none", s |-> <<>>]
Str(s) == [k |-> "str", s |-> s]

\* attributes.get(key, default): the default only when the key is missing
AttrGet(v, default) == IF v.k = "absent" THEN default ELSE v

\* Python truthiness of an attribute value: None and "" are falsy
Truthy(v) == v.k = "str" /\ v.s # <<>>

RacePrefix == <<"r", "a", "c", "e", "/">>
SlashRacePrefix == <<"/">> \o RacePrefix

\* ------------------------------------------------------- DOM (calendar)
\* A parsed node: tag, class tokens, href attribute value, children.
NoNode == [tag |-> "none", class |-> {}, href |-> Absent, kids |-> <<>>]
Anchor(h) == [tag |-> "a", class |-> {}, href |-> h, kids |-> <<>>]
Div(cls, kids) == [tag |-> "div", class |-> cls, href |-> Absent, kids |-> kids]
Html(kids) == [tag |-> "html", class |-> {}, href |-> Absent, kids |-> kids]

\* The nodes a selector is evaluated against, in document order: the node
\* itself, then its descendants.
RECURSIVE Subtree(_)
RECURSIVE SubtreeOfAll(_)
Subtree(n) == <<n>> \o SubtreeOfAll(n.kids)
SubtreeOfAll(ns) ==
  IF ns = <<>> THEN <<>> ELSE Subtree(Head(ns)) \o SubtreeOfAll(Tail(ns))

IsDivWithClass(n, cls) == n.tag = "div" /\ cls \in n.class
IsAnchor(n) == n.tag = "a"

\* node.css("div.<cls>") and node.css_first("div.<cls>")
CssDiv(n, cls) == SelectSeq(Subtree(n), LAMBDA m : IsDivWithClass(m, cls))
CssFirstDiv(n, cls) ==
  LET found == CssDiv(n, cls) IN IF found = <<>> THEN NoNode ELSE found[1]

\* node.css("a")
CssAnchors(n) == SelectSeq(Subtree(n), LAMBDA m : IsAnchor(m))

\* ------------------------------------------------- race_urls_for_date
\* if href and (href.startswith("/race/") or href.startswith("race/"))
IsRaceHref(href) ==
  /\ Truthy(href)
  /\ (StartsWith(href.s, SlashRacePrefix) \/ StartsWith(href.s, RacePrefix))

\* a variant with a slip: the leading slash is kept
KeepSlash(s) == s
\* if href.startswith("/race/"): href = href[1:]
NormalizeHref(s) == IF StartsWith(s, SlashRacePrefix) THEN Tail(s) ELSE s

\* a variant with a slip: div.page-content is searched in the whole response
PageContentAnywhere(html) == CssFirstDiv(html, "page-content")
\* html.css_first("div.content"), then content_div.css_first("div.page-content")
PageContentDiv(html) ==
  LET content_div == CssFirstDiv(html, "content")
  IN  IF content_div = NoNode THEN NoNode
      ELSE CssFirstDiv(content_div, "page-content")

\* The hrefs the loop adds, in the order it meets them.
RaceHrefs(html) ==
  LET page_content_div == PageContentDiv(html)
      anchors == IF page_content_div = NoNode THEN <<>>
                 ELSE CssAnchors(page_content_div)
      hrefs == [i \in 1..Len(anchors) |-> AttrGet(anchors[i].href, None)]
      kept == SelectSeq(hrefs, IsRaceHref)
  IN  [i \in 1..Len(kept) |-> NormalizeHref(kept[i].s)]

Range(f) == {f[i] : i \in DOMAIN f}

\* a variant with a slip: a list instead of a set, returned as collected
CollectedAsList(html) == RaceHrefs(html)
\* race_urls = set() ... race_urls.add(href) ... return sorted(race_urls)
ParseCalendar(html) == Sorted(Range(RaceHrefs(html)))

\* ------------------------------------------------ calendar responses
RaceA == RacePrefix \o <<"a">>
RaceB == RacePrefix \o <<"b">>
RaceC == RacePrefix \o <<"c">>
RaceE == RacePrefix \o <<"e">>
RaceAB == RacePrefix \o <<"a", "b">>
RaceASlashB == RacePrefix \o <<"a", "/", "b">>

\* href values an anchor of the response may carry
HrefPool ==
  { None, Str(<<>>), Str(RaceA), Str(<<"/">> \o RaceA), Str(RaceASlashB),
    Str(RaceAB), Str(<<"/", "/">> \o RaceA), Str(SlashRacePrefix) }

\* div.content > div.page-content holding one anchor for each href of hs
HrefBody(hs) ==
  Html(<<Div({"content"},
             <<Div({"page-content"},
                   [i \in 1..Len(hs) |-> Anchor(hs[i])])>>)>>)

\* Five nested divs, each plain, a content or a page-content container,
\* with one anchor of its own in each place of the tree.
DivClasses == {{}, {"content"}, {"page-content"}}
ScopeBody(c1, c2, c3, c4, c5) ==
  Html(<<Div(c1, <<Anchor(Str(<<"/">> \o RaceA)),
                   Div(c2, <<Anchor(Str(RaceB)), Anchor(Absent)>>),
                   Div(c3, <<Anchor(Str(<<"/">> \o RaceC))>>)>>),
         Div(c4, <<Anchor(Str(RaceE)),
                   Div(c5, <<Anchor(Str(RaceAB))>>)>>),
         Anchor(Str(RaceASlashB))>>)

\* the responses of the concurrent specification
FewBodies ==
  { Html(<<>>),
    Html(<<Div({"content"},
               <<Div({"page-content"}, <<Anchor(Str(RaceA))>>)>>)>>) }

\* what session.get may raise
TransportErrors == {"ConnectionError", "Timeout"}

\* ------------------------------------------------- DOM (homepage)
\* An element a css_first may or may not find: its href and its text.
NoElem == [present |-> FALSE, href |-> Absent, text |-> <<>>]
Elem(href, text) == [present |-> TRUE, href |-> href, text |-> text]

\* text(strip=True): leading and trailing white space removed
RECURSIVE LStrip(_)
LStrip(s) == IF s # <<>> /\ Head(s) = " " THEN LStrip(Tail(s)) ELSE s
RECURSIVE RStrip(_)
RStrip(s) ==
  IF s # <<>> /\ s[Len(s)] = " " THEN RStrip(SubSeq(s, 1, Len(s) - 1)) ELSE s
Strip(s) == RStrip(LStrip(s))

\* Python's "needle in haystack" on strings
Contains(haystack, needle) ==
  \E i \in 0..(Len(haystack) - Len(needle)) :
    SubSeq(haystack, i + 1, i + Len(needle)) = needle

\* element.text(strip=True) if element else ""
TextOrEmpty(e) == IF e.present THEN Strip(e.text) ELSE <<>>

\* -------------------------------------------------------- live_races
\* self.html.css("ul.hp3-livestats li.live")
LiveList(d) == IF d.liveContainer THEN d.liveItems ELSE <<>>

LiveRecord(li) ==
  [url |-> AttrGet(li.a.href, Str(<<>>)),
   name |-> TextOrEmpty(li.title),
   status |-> "live",
   togo |-> TextOrEmpty(li.togo)]

\* a variant with a slip: an item whose anchor has no usable href is dropped too
LiveKeptStrict(li) == li.a.present /\ Truthy(AttrGet(li.a.href, Str(<<>>)))
\* a_tag = li.css_first("a"); if not a_tag: continue
LiveKept(li) == li.a.present

\* lines 44-69
LiveRaces(d) ==
  LET kept == SelectSeq(LiveList(d), LiveKept)
  IN  [i \in 1..Len(kept) |-> LiveRecord(kept[i])]

\* ---------------------------------------------------- next_to_finish
\* a variant with a slip: the category column is demanded as well
TooFewCellsOffByOne(cells) == Len(cells) < 5
\* if len(cells) < 4: continue
TooFewCells(cells) == Len(cells) < 4

\* cells[3].css_first("a") if len(cells) > 3 else None
NameAnchor(cells) == IF Len(cells) > 3 THEN cells[4].a ELSE NoElem

RowKept(cells) == ~TooFewCells(cells) /\ NameAnchor(cells).present

UpcomingRecord(cells) ==
  [url |-> AttrGet(NameAnchor(cells).href, Str(<<>>)),
   name |-> Strip(NameAnchor(cells).text),
   eta |-> IF Len(cells) > 1 THEN Strip(cells[2].text) ELSE <<>>,
   category |-> IF Len(cells) > 4 THEN Strip(cells[5].text) ELSE <<>>,
   class |-> IF Len(cells) > 5 THEN Strip(cells[6].text) ELSE <<>>]

\* lines 77-111; table = css_first("table.next-to-finish tbody")
NextToFinish(d) ==
  IF ~d.ntfTable THEN <<>>
  ELSE LET kept == SelectSeq(d.ntfRows, RowKept)
       IN  [i \in 1..Len(kept) |-> UpcomingRecord(kept[i])]

\* --------------------------------- finished_races and yesterday_races
Marker == <<"h", "p", "2", "-", "r", "e", "s", "u", "l", "t", "s">>
\* heading texts are sequences of words
ResultsToday == <<"Results", "today">>
ResultsYesterday == <<"Results", "yesterday">>

NotFound == [k |-> "none", items |-> <<>>]
Found(ul) == [k |-> "found", items |-> ul.items]
TypeError == [k |-> "error", items |-> <<>>]

\* sibling.tag == "ul" and "hp2-results" in sibling.attributes.get("class", "")
\* "in" applied to None raises TypeError
RECURSIVE SiblingWalk(_, _)
SiblingWalk(chain, j) ==
  IF j > Len(chain) THEN NotFound
  ELSE LET sibling == chain[j]
           cls == AttrGet(sibling.class, Str(<<>>))
       IN  IF sibling.tag # "ul" THEN SiblingWalk(chain, j + 1)
           ELSE IF cls.k = "none" THEN TypeError
           ELSE IF Contains(cls.s, Marker) THEN Found(sibling)
           ELSE SiblingWalk(chain, j + 1)

\* h3 in self.html.css("h3.black-info-title") with the label in h3.text()
IsHeading(n, label) ==
  n.tag = "h3" /\ n.titleClass /\ Contains(n.text, label)

\* places <<i, j>> of the document: node j of sibling chain i
Places(d) ==
  UNION {{<<i, j>> : j \in 1..Len(d.chains[i])} : i \in 1..Len(d.chains)}
Before(p, q) == p[1] < q[1] \/ (p[1] = q[1] /\ p[2] < q[2])

\* the for loop with its two breaks: the first heading with the label, then
\* the walk from h3.next
ResultsSection(d, label) ==
  LET hs == {p \in Places(d) : IsHeading(d.chains[p[1]][p[2]], label)}
  IN  IF hs = {} THEN NotFound
      ELSE LET h == CHOOSE p \in hs : \A q \in hs : p = q \/ Before(p, q)
           IN  SiblingWalk(d.chains[h[1]], h[2] + 1)

\* li.css_first("div > a[href^='race/']")
IsRaceLink(a) ==
  a.inDiv /\ a.href.k = "str" /\ StartsWith(a.href.s, RacePrefix)
RaceLink(li) ==
  LET ms == SelectSeq(li.links, IsRaceLink)
  IN  IF ms = <<>> THEN [present |-> FALSE, href |-> Absent, b |-> NoElem]
      ELSE [present |-> TRUE, href |-> ms[1].href, b |-> ms[1].b]

ResultKept(li) == RaceLink(li).present

ResultRecord(li) ==
  [url |-> AttrGet(RaceLink(li).href, Str(<<>>)),
   name |-> TextOrEmpty(RaceLink(li).b),
   category |-> TextOrEmpty(li.category)]

\* results_section.css("li.race") and the loop over it
ResultList(items) ==
  LET kept == SelectSeq(items, ResultKept)
  IN  [i \in 1..Len(kept) |-> ResultRecord(kept[i])]

OutNone == [k |-> "none", recs |-> <<>>]
OutRecords(recs) == [k |-> "records", recs |-> recs]
OutRaised == [k |-> "error", recs |-> <<>>]

ResultsFor(d, label) ==
  LET section == ResultsSection(d, label)
  IN  IF section.k = "error" THEN OutRaised
      ELSE OutRecords(ResultList(section.items))

\* lines 119-147
FinishedRaces(d) == ResultsFor(d, ResultsToday)
\* lines 155-183
YesterdayRaces(d) == ResultsFor(d, ResultsYesterday)

\* ---------------------------------------------------------------- state
VARIABLES
  doc,         \* self.html: the parsed homepage
  op,          \* the extractor called last
  out,         \* what it returned or raised
  site,        \* the calendar page the server holds
  cfgScraper,  \* self._scraper: "missing", "none" or "obj"
  cfgSession,  \* self._session: "none" or "obj"
  pc,          \* each invocation of race_urls_for_date: where it is
  session,     \* each invocation's local variable session
  created,     \* requests.Session objects constructed so far
  wire,        \* each invocation's GET requests: the outcome of each
  result       \* what each invocation returned or raised

vars == <<doc, op, out, site, cfgScraper, cfgSession, pc, session, created,
          wire, result>>

Callers == 1..NCallers

NoSession == [kind |-> "none", id |-> 0]
ScraperObj == [kind |-> "scraper", id |-> 0]
SessionObj == [kind |-> "session", id |-> 0]
NewSession(n) == [kind |-> "new", id |-> n]

NoResult == [k |-> "none", urls |-> <<>>, err |-> ""]
Returned(urls) == [k |-> "urls", urls |-> urls, err |-> ""]
Raised(e) == [k |-> "error", urls |-> <<>>, err |-> e]

\* self._scraper if hasattr(self, '_scraper') and self._scraper else self._session
ConfiguredSession ==
  IF cfgScraper = "obj" THEN ScraperObj
  ELSE IF cfgSession = "obj" THEN SessionObj
  ELSE NoSession

\* a variant with a slip: one fallback session kept and handed to every invocation
SharedFallback(c) ==
  /\ pc[c] = "call"
  /\ IF ConfiguredSession = NoSession
     THEN /\ session' = [session EXCEPT ![c] = NewSession(1)]
          /\ created' = 1
     ELSE /\ session' = [session EXCEPT ![c] = ConfiguredSession]
          /\ UNCHANGED created
  /\ pc' = [pc EXCEPT ![c] = "get"]
  /\ UNCHANGED <<site, cfgScraper, cfgSession, wire, result, doc, op, out>>
\* lines 193-197: the session, a new requests.Session() when none is set
ObtainSession(c) ==
  /\ pc[c] = "call"
  /\ IF ConfiguredSession = NoSession
     THEN /\ session' = [session EXCEPT ![c] = NewSession(created + 1)]
          /\ created' = created + 1
     ELSE /\ session' = [session EXCEPT ![c] = ConfiguredSession]
          /\ UNCHANGED created
  /\ pc' = [pc EXCEPT ![c] = "get"]
  /\ UNCHANGED <<site, cfgScraper, cfgSession, wire, result, doc, op, out>>

\* lines 198-211: the GET answers; the body is parsed and the URLs returned
GetReturns(c) ==
  /\ pc[c] = "get"
  /\ wire' = [wire EXCEPT ![c] = Append(@, "ok")]
  /\ result' = [result EXCEPT ![c] = Returned(ParseCalendar(site))]
  /\ pc' = [pc EXCEPT ![c] = "returned"]
  /\ UNCHANGED <<site, cfgScraper, cfgSession, session, created, doc, op, out>>

\* a variant with a slip: the failure is swallowed and an empty list returned
GetFailsSwallowed(c) ==
  /\ pc[c] = "get"
  /\ \E e \in TransportErrors :
       /\ wire' = [wire EXCEPT ![c] = Append(@, e)]
       /\ result' = [result EXCEPT ![c] = Returned(<<>>)]
  /\ pc' = [pc EXCEPT ![c] = "returned"]
  /\ UNCHANGED <<site, cfgScraper, cfgSession, session, created, doc, op, out>>
\* line 198: session.get raises; nothing catches it
GetFails(c) ==
  /\ pc[c] = "get"
  /\ \E e \in TransportErrors :
       /\ wire' = [wire EXCEPT ![c] = Append(@, e)]
       /\ result' = [result EXCEPT ![c] = Raised(e)]
  /\ pc' = [pc EXCEPT ![c] = "raised"]
  /\ UNCHANGED <<site, cfgScraper, cfgSession, session, created, doc, op, out>>

InitCalendarState ==
  /\ cfgScraper \in {"missing", "none", "obj"}
  /\ cfgSession \in {"none", "obj"}
  /\ session = [c \in Callers |-> NoSession]
  /\ created = 0
  /\ wire = [c \in Callers |-> <<>>]
  /\ result = [c \in Callers |-> NoResult]


\* --------------------------------------------------- homepage inputs
LiveItems ==
  { [a |-> a, title |-> t, togo |-> g] :
      a \in {NoElem, Elem(Absent, <<>>), Elem(None, <<>>), Elem(Str(RaceA), <<>>)},
      t \in {NoElem, Elem(Absent, <<" ", "a", " ">>)},
      g \in {NoElem, Elem(Absent, <<"b">>)} }

CellText(i) ==
  IF i = 2 THEN <<" ", "e">>
  ELSE IF i = 5 THEN <<"c">>
  ELSE IF i = 6 THEN <<"k", " ">>
  ELSE <<"o">>

\* a row of n cells, with an anchor in cell linkAt (none when 0)
Row(n, linkAt, href) ==
  [i \in 1..n |->
     [text |-> CellText(i),
      a |-> IF i = linkAt THEN Elem(href, <<"n", " ">>) ELSE NoElem]]

\* rows of up to MaxCells cells: no anchor, an anchor in the cell before
\* the name column, or one in the name column with or without a href
Rows ==
  { Row(n, 0, Absent) : n \in 0..MaxCells } \cup
  { Row(n, 3, Str(RaceA)) : n \in 3..MaxCells } \cup
  { Row(n, 4, h) : n \in 4..MaxCells, h \in {Absent, Str(RaceA)} }

\* the li.race items of the two result lists
ItemsA ==
  << [links |-> << [href |-> Str(RaceA), inDiv |-> TRUE,
                    b |-> Elem(Absent, <<"a", " ">>)] >>,
      category |-> Elem(Absent, <<"c">>)] >>
ItemsB ==
  << [links |-> <<>>, category |-> Elem(Absent, <<"c">>)],
     [links |-> << [href |-> Str(<<"/">> \o RaceB), inDiv |-> TRUE,
                    b |-> Elem(Absent, <<"b">>)],
                   [href |-> Str(RaceB), inDiv |-> FALSE,
                    b |-> Elem(Absent, <<"b">>)],
                   [href |-> Absent, inDiv |-> TRUE, b |-> NoElem],
                   [href |-> Str(RaceE), inDiv |-> TRUE, b |-> NoElem] >>,
      category |-> NoElem] >>

Node(tag, titleClass, text, class, items) ==
  [tag |-> tag, titleClass |-> titleClass, text |-> text, class |-> class,
   items |-> items]

\* the nodes a sibling chain is made of; "break" ends a chain. titleClass
\* says whether the selector h3.black-info-title matches the node, class is
\* the class attribute the walk reads and items the li.race of a list.
Break == Node("break", FALSE, <<>>, Absent, <<>>)
Siblings ==
  { Node("h3", TRUE, <<"Results", "today">>, Absent, <<>>),
    Node("h3", TRUE, <<"Results", "yesterday">>, Absent, <<>>),
    Node("h3", FALSE, <<"Results", "today">>, Absent, <<>>),
    Node("ul", FALSE, <<>>, Str(Marker), ItemsA),
    Node("ul", FALSE, <<>>, Str(<<"x">> \o Marker \o <<" ", "y">>), ItemsB),
    Node("ul", FALSE, <<>>, None, ItemsA),
    Node("ul", FALSE, <<>>, Absent, ItemsA),
    Node("div", FALSE, <<>>, Str(Marker), ItemsB) }

\* a flat list of nodes cut into sibling chains at each break
RECURSIVE Chains(_)
Chains(flat) ==
  IF flat = <<>> THEN << <<>> >>
  ELSE LET rest == Chains(Tail(flat))
       IN  IF Head(flat) = Break THEN << <<>> >> \o rest
           ELSE << <<Head(flat)>> \o rest[1] >> \o Tail(rest)

HomeDoc(liveContainer, liveItems, ntfTable, ntfRows, chains) ==
  [liveContainer |-> liveContainer, liveItems |-> liveItems,
   ntfTable |-> ntfTable, ntfRows |-> ntfRows, chains |-> chains]

\* a homepage with a live list, one with a next-to-finish table, one with
\* headings and result lists
InitLiveDoc ==
  \E c \in BOOLEAN : \E k \in 0..MaxItems : \E items \in [1..k -> LiveItems] :
    doc = HomeDoc(c, items, FALSE, <<>>, <<>>)
InitNtfDoc ==
  \E t \in BOOLEAN : \E k \in 0..MaxRows : \E rows \in [1..k -> Rows] :
    doc = HomeDoc(FALSE, <<>>, t, rows, <<>>)
InitResultDoc ==
  \E k \in 0..MaxNodes : \E flat \in [1..k -> Siblings \cup {Break}] :
    doc = HomeDoc(FALSE, <<>>, FALSE, <<>>, Chains(flat))

NoHome == HomeDoc(FALSE, <<>>, FALSE, <<>>, <<>>)
InitNoHome == doc = NoHome /\ op = "none" /\ out = OutNone

\* -------------------------------------------------- homepage actions
live_races ==
  /\ op' = "live_races"
  /\ out' = OutRecords(LiveRaces(doc))
  /\ UNCHANGED <<doc, site, cfgScraper, cfgSession, pc, session, created,
                 wire, result>>

next_to_finish ==
  /\ op' = "next_to_finish"
  /\ out' = OutRecords(NextToFinish(doc))
  /\ UNCHANGED <<doc, site, cfgScraper, cfgSession, pc, session, created,
                 wire, result>>

finished_races ==
  /\ op' = "finished_races"
  /\ out' = FinishedRaces(doc)
  /\ UNCHANGED <<doc, site, cfgScraper, cfgSession, pc, session, created,
                 wire, result>>

yesterday_races ==
  /\ op' = "yesterday_races"
  /\ out' = YesterdayRaces(doc)
  /\ UNCHANGED <<doc, site, cfgScraper, cfgSession, pc, session, created,
                 wire, result>>

\* Any extractor, any number of times, on one parsed homepage.
Init ==
  /\ (InitLiveDoc \/ InitNtfDoc \/ InitResultDoc)
  /\ op = "none"
  /\ out = OutNone
  /\ site = Html(<<>>)
  /\ cfgScraper = "none"
  /\ cfgSession = "none"
  /\ pc = [c \in Callers |-> "idle"]
  /\ session = [c \in Callers |-> NoSession]
  /\ created = 0
  /\ wire = [c \in Callers |-> <<>>]
  /\ result = [c \in Callers |-> NoResult]
Next == live_races \/ next_to_finish \/ finished_races \/ yesterday_races
Spec == Init /\ [][Next]_vars

\* One invocation of race_urls_for_date against any calendar page.
InitCalendar ==
  /\ InitNoHome
  /\ \/ \E k \in 0..MaxAnchors : \E hs \in [1..k -> HrefPool] :
          site = HrefBody(hs)
     \/ \E c1 \in DivClasses, c2 \in DivClasses, c3 \in DivClasses,
           c4 \in DivClasses, c5 \in DivClasses :
          site = ScopeBody(c1, c2, c3, c4, c5)
  /\ InitCalendarState
  /\ pc = [c \in Callers |-> IF c = 1 THEN "call" ELSE "idle"]
NextCalendar == ObtainSession(1) \/ GetReturns(1) \/ GetFails(1)
SpecCalendar == InitCalendar /\ [][NextCalendar]_vars

\* Every caller invokes race_urls_for_date once, on one TodayRaces object.
InitConcurrent ==
  /\ InitNoHome
  /\ site \in FewBodies
  /\ InitCalendarState
  /\ pc = [c \in Callers |-> "call"]
NextConcurrent ==
  \E c \in Callers : ObtainSession(c) \/ GetReturns(c) \/ GetFails(c)
SpecConcurrent == InitConcurrent /\ [][NextConcurrent]_vars

\* ------------------------------------------------------ calendar claims
Urls == result[1].urls

\* the first div.content of the response, and the first div.page-content
\* inside it, found without PageContentDiv
ContentDivs == CssDiv(site, "content")
NestedPages == IF ContentDivs = <<>> THEN <<>>
               ELSE CssDiv(ContentDivs[1], "page-content")
RaceAnchorsOf(n) ==
  {a \in Range(CssAnchors(n)) : IsRaceHref(AttrGet(a.href, None))}
WithoutSlash(s) == IF s # <<>> /\ s[1] = "/" THEN Tail(s) ELSE s

\* C1: the sequence race_urls_for_date returns is strictly ascending in
\* Python's string order, hence sorted and free of duplicates, whatever
\* the order of the hrefs in the response body.
C1_SortedNoDuplicates ==
  pc[1] = "returned" =>
    \A i \in 1..Len(Urls) : \A j \in 1..Len(Urls) :
      i < j => StrLess(Urls[i], Urls[j])

\* the body lists a href twice (once with a slash) and out of order
C1_Witness ==
  /\ pc[1] = "returned"
  /\ Len(Urls) >= 2
  /\ Len(RaceHrefs(site)) > Len(Urls)
  /\ \E i \in 1..Len(RaceHrefs(site)) : \E j \in 1..Len(RaceHrefs(site)) :
       i < j /\ StrLess(RaceHrefs(site)[j], RaceHrefs(site)[i])

TwoVariants ==
  Html(<<Div({"content"},
             <<Div({"page-content"},
                   <<Anchor(Str(<<"/">> \o RaceA)), Anchor(Str(RaceA))>>)>>)>>)

\* C2: no returned string starts with "/", and the anchors "/race/a" and
\* "race/a" give the single entry "race/a".
C2_NoLeadingSlash ==
  pc[1] = "returned" =>
    /\ \A i \in 1..Len(Urls) : Urls[i] # <<>> /\ Urls[i][1] # "/"
    /\ site = TwoVariants => Urls = <<RaceA>>

C2_Witness ==
  /\ pc[1] = "returned"
  /\ site = TwoVariants
  /\ Len(Urls) = 1

\* C6: the URLs are those of the anchors inside the first div.page-content
\* within the first div.content, and there are none when the response has
\* no div.content or that div holds no div.page-content.
C6_OnlyPageContent ==
  pc[1] = "returned" =>
    IF NestedPages = <<>> THEN Urls = <<>>
    ELSE Range(Urls) =
           {WithoutSlash(a.href.s) : a \in RaceAnchorsOf(NestedPages[1])}

\* a div.page-content with race anchors comes first in the response, outside
\* the div.content whose page-content is the one searched
C6_Witness ==
  /\ pc[1] = "returned"
  /\ Urls # <<>>
  /\ NestedPages # <<>>
  /\ CssFirstDiv(site, "page-content") # NestedPages[1]
  /\ RaceAnchorsOf(CssFirstDiv(site, "page-content")) # {}
  /\ Cardinality(RaceAnchorsOf(site)) > Len(Urls)

\* C7: an invocation issues one GET; when the GET fails, the invocation
\* raises that very failure and returns nothing.
C7_OneGetFailureSurfaces ==
  /\ Len(wire[1]) <= 1
  /\ pc[1] \in {"returned", "raised"} => Len(wire[1]) = 1
  /\ \A e \in TransportErrors :
       (wire[1] # <<>> /\ wire[1][1] = e) =>
         pc[1] = "raised" /\ result[1] = Raised(e)

C7_Witness ==
  /\ pc[1] = "raised"
  /\ wire[1] = <<"Timeout">>
  /\ result[1] = Raised("Timeout")

\* ---------------------------------------------------- concurrency claim
HasSession(c) == pc[c] \in {"get", "returned", "raised"}

\* C9: with no session configured every invocation holds a session of its
\* own, constructed by itself; with one configured every invocation holds
\* it and none is constructed.
C9_OwnSessionPerCall ==
  IF ConfiguredSession = NoSession
  THEN /\ \A c \in Callers : HasSession(c) => session[c].kind = "new"
       /\ \A c \in Callers : \A d \in Callers :
            (c # d /\ HasSession(c) /\ HasSession(d)) => session[c] # session[d]
       /\ created = Cardinality({c \in Callers : HasSession(c)})
  ELSE /\ \A c \in Callers : HasSession(c) => session[c] = ConfiguredSession
       /\ created = 0

\* two invocations on the fallback path, both before their GET
C9_Witness ==
  /\ ConfiguredSession = NoSession
  /\ pc[1] = "get"
  /\ pc[2] = "get"
  /\ created = 2

\* ------------------------------------------------------ homepage claims
Recs == out.recs
Rows4WithAnchor ==
  {i \in DOMAIN doc.ntfRows :
     Len(doc.ntfRows[i]) >= 4 /\ doc.ntfRows[i][4].a.present}

\* C3: next_to_finish returns one record for each row of at least 4 cells
\* with an anchor in cell 3 (counted from 0) and none for the other rows;
\* without the table body it returns the empty sequence.
C3_RowsToRecords ==
  op = "next_to_finish" =>
    /\ out.k = "records"
    /\ IF doc.ntfTable THEN Len(Recs) = Cardinality(Rows4WithAnchor)
       ELSE Recs = <<>>

\* a row of exactly 3 cells (the last with an anchor) beside a row kept
C3_Witness ==
  /\ op = "next_to_finish"
  /\ doc.ntfTable
  /\ \E i \in DOMAIN doc.ntfRows :
       Len(doc.ntfRows[i]) = 3 /\ doc.ntfRows[i][3].a.present
  /\ \E i \in DOMAIN doc.ntfRows : Len(doc.ntfRows[i]) = 4
  /\ Len(Recs) = 1

\* C4: each extractor returns a sequence on every document, and
\* finished_races the empty one when no heading matches "Results today".
C4_Total ==
  /\ op # "none" => out.k = "records"
  /\ (op = "finished_races" /\
      \A p \in Places(doc) : ~IsHeading(doc.chains[p[1]][p[2]], ResultsToday))
       => out = OutRecords(<<>>)

\* C5 as claimed: no extractor emits a record whose url is empty.
C5_NoEmptyUrl ==
  op # "none" => \A i \in 1..Len(Recs) : Truthy(Recs[i].url)

TableRowsWithAnchor == IF doc.ntfTable THEN Rows4WithAnchor ELSE {}
LiveWithAnchor == {i \in DOMAIN LiveList(doc) : LiveList(doc)[i].a.present}

\* C5 as amended: live_races and next_to_finish emit exactly one record for
\* each item that has its anchor, its url the anchor's href value or "" when
\* the anchor has no href; the url of every record of finished_races and
\* yesterday_races starts with "race/".
C5_RecordNeedsAnchor ==
  /\ op = "live_races" =>
       /\ Len(Recs) = Cardinality(LiveWithAnchor)
       /\ \A i \in 1..Len(Recs) :
            \E j \in LiveWithAnchor :
              Recs[i].url = IF LiveList(doc)[j].a.href = Absent THEN Str(<<>>)
                            ELSE LiveList(doc)[j].a.href
  /\ op = "next_to_finish" =>
       /\ Len(Recs) = Cardinality(TableRowsWithAnchor)
       /\ \A i \in 1..Len(Recs) :
            \E j \in TableRowsWithAnchor :
              Recs[i].url = IF doc.ntfRows[j][4].a.href = Absent THEN Str(<<>>)
                            ELSE doc.ntfRows[j][4].a.href
  /\ op \in {"finished_races", "yesterday_races"} =>
       \A i \in 1..Len(Recs) :
         Recs[i].url.k = "str" /\ StartsWith(Recs[i].url.s, RacePrefix)

\* a live list with an item without anchor, one whose anchor has no href
\* and nothing else: one record, its url empty
C5_Witness ==
  /\ op = "live_races"
  /\ Len(LiveList(doc)) = 2
  /\ \E i \in DOMAIN LiveList(doc) : ~LiveList(doc)[i].a.present
  /\ Len(Recs) = 1
  /\ Recs[1].url = Str(<<>>)

\* the section the claims describe, found without SiblingWalk
IsMarkedList(n) ==
  n.tag = "ul" /\ n.class.k = "str" /\ Contains(n.class.s, Marker)
Headings(label) ==
  {p \in Places(doc) : IsHeading(doc.chains[p[1]][p[2]], label)}
FirstHeading(label) ==
  CHOOSE p \in Headings(label) : \A q \in Headings(label) : p = q \/ Before(p, q)
MarkedAfter(i, j) ==
  {n \in (j + 1)..Len(doc.chains[i]) : IsMarkedList(doc.chains[i][n])}
Least(S) == CHOOSE n \in S : \A m \in S : n <= m
ExpectedRecords(label) ==
  IF Headings(label) = {} THEN <<>>
  ELSE LET h == FirstHeading(label)
       IN  IF MarkedAfter(h[1], h[2]) = {} THEN <<>>
           ELSE ResultList(doc.chains[h[1]][Least(MarkedAfter(h[1], h[2]))].items)

\* C8: finished_races and yesterday_races return the records of the first
\* forward sibling of the first heading with the label that is a ul whose
\* class contains "hp2-results", and the empty sequence when that heading
\* has no such sibling or no heading has the label.
C8_FirstHeadingFirstList ==
  /\ op = "finished_races" => out = OutRecords(ExpectedRecords(ResultsToday))
  /\ op = "yesterday_races" => out = OutRecords(ExpectedRecords(ResultsYesterday))

\* the same, of the calls that return
C8_WhenItReturns ==
  /\ (op = "finished_races" /\ out.k = "records")
       => Recs = ExpectedRecords(ResultsToday)
  /\ (op = "yesterday_races" /\ out.k = "records")
       => Recs = ExpectedRecords(ResultsYesterday)

\* the first "Results today" heading is followed, among its siblings, by
\* another section heading with no marked list in between and one after it
NextHeadings(h) ==
  {n \in (h[2] + 1)..Len(doc.chains[h[1]]) :
     doc.chains[h[1]][n].tag = "h3" /\ doc.chains[h[1]][n].titleClass}
ListOnlyAfterNextHeading ==
  /\ Headings(ResultsToday) # {}
  /\ LET h == FirstHeading(ResultsToday)
     IN  /\ NextHeadings(h) # {}
         /\ MarkedAfter(h[1], h[2]) # {}
         /\ Least(NextHeadings(h)) < Least(MarkedAfter(h[1], h[2]))

\* every marked list of the document follows a "Results yesterday" heading
\* that follows the first "Results today" heading in the same chain
OnlyYesterdayList ==
  /\ ListOnlyAfterNextHeading
  /\ Headings(ResultsYesterday) # {}
  /\ FirstHeading(ResultsYesterday)[1] = FirstHeading(ResultsToday)[1]
  /\ FirstHeading(ResultsYesterday)[2] > FirstHeading(ResultsToday)[2]
  /\ \A p \in Places(doc) :
       IsMarkedList(doc.chains[p[1]][p[2]]) =>
         Before(FirstHeading(ResultsYesterday), p)

\* C10: the walk passes an intervening section heading and finished_races
\* returns the records of the first marked list after it; when the only
\* marked list follows a later "Results yesterday" heading, finished_races
\* returns what yesterday_races returns.
C10_WalkPassesHeadings ==
  op = "finished_races" =>
    /\ ListOnlyAfterNextHeading =>
         out = OutRecords(ExpectedRecords(ResultsToday))
    /\ OnlyYesterdayList =>
         out.k = "records" /\ out = YesterdayRaces(doc)

\* the same, of the calls that return
C10_WhenItReturns ==
  (op = "finished_races" /\ out.k = "records") =>
    /\ ListOnlyAfterNextHeading => Recs = ExpectedRecords(ResultsToday)
    /\ OnlyYesterdayList => out = YesterdayRaces(doc)

C10_Reached ==
  /\ op = "finished_races"
  /\ OnlyYesterdayList
  /\ Recs # <<>>
=============================================================================
